---------------------------- MODULE Spec2Model ----------------------------
(***************************************************************************)
(* A model of adblockgoparser: the rule compiler (ParseRule,               *)
(* ruleToRegexp), the filter set builder (NewRuleSetFromStr), the matching *)
(* engine (RuleSet.Match, RuleSet.Allow, extractOptionsFromRequest).       *)
(*                                                                         *)
(* Go strings are TLA+ strings; a character is a string of length one.     *)
(* The regular expressions the program builds are kept as strings and are  *)
(* parsed and run by the operators of the "regexp" section below, which    *)
(* implement the part of Go's regexp syntax those strings use.             *)
(***************************************************************************)
EXTENDS Integers, Sequences, FiniteSets, TLC

VARIABLES
    mode,        \* the entry point this run exercises: "parse", "set" or "conc"
    line,        \* ParseRule's argument
    parsed,      \* ParseRule's outcome, NotParsed before the call
    rulesStr,    \* NewRuleSetFromStr's argument
    built,       \* "no", then "ok" (a RuleSet was returned) or "panic"
    ruleSet,     \* the *RuleSet, with its lazily compiled expressions
    lastCall,    \* the latest finished call on ruleSet: "none", "Match", "Allow"
    lastReq,     \* its Request
    lastResult,  \* what it returned: "none", "true", "false" or "panic"
    callers,     \* concurrent Match calls: caller -> position and locals
    writes       \* how many times each cached expression has been stored

vars == <<mode, line, parsed, rulesStr, built, ruleSet, lastCall, lastReq,
          lastResult, callers, writes>>

-----------------------------------------------------------------------------
(* package strings *)

Max(a, b) == IF a >= b THEN a ELSE b
Min(a, b) == IF a <= b THEN a ELSE b

\* s[i-1:j] of Go (1-based, both ends included), cut to the string: the empty
\* string when the range is empty. The places where Go panics on a range that
\* leaves the string are modelled where they occur (ruleToRegexp).
Slice(s, i, j) ==
    IF i > j \/ i > Len(s) \/ j < 1 THEN ""
    ELSE SubSeq(s, Max(i, 1), Min(j, Len(s)))

\* The character s[i-1] of Go, "" outside the string.
At(s, i) == Slice(s, i, i)

HasPrefix(s, prefix) ==
    Len(s) >= Len(prefix) /\ Slice(s, 1, Len(prefix)) = prefix

TrimPrefix(s, prefix) ==
    IF HasPrefix(s, prefix) THEN Slice(s, Len(prefix) + 1, Len(s)) ELSE s

\* The first index at or after from where substr starts in s, 0 when none.
RECURSIVE IndexFrom(_, _, _)
IndexFrom(s, substr, from) ==
    IF from + Len(substr) - 1 > Len(s) THEN 0
    ELSE IF Slice(s, from, from + Len(substr) - 1) = substr THEN from
    ELSE IndexFrom(s, substr, from + 1)

Contains(s, substr) == IndexFrom(s, substr, 1) # 0

\* strings.ReplaceAll for a non-empty old: leftmost non-overlapping occurrences.
RECURSIVE ReplaceAll(_, _, _)
ReplaceAll(s, old, new) ==
    LET i == IndexFrom(s, old, 1)
    IN  IF i = 0 THEN s
        ELSE Slice(s, 1, i - 1) \o new
             \o ReplaceAll(Slice(s, i + Len(old), Len(s)), old, new)

\* strings.Split for a one-character separator: Split("", sep) is <<"">>.
RECURSIVE Split(_, _)
Split(s, sep) ==
    LET i == IndexFrom(s, sep, 1)
    IN  IF i = 0 THEN <<s>>
        ELSE <<Slice(s, 1, i - 1)>> \o Split(Slice(s, i + Len(sep), Len(s)), sep)

\* strings.SplitN(s, sep, 2)
SplitN2(s, sep) ==
    LET i == IndexFrom(s, sep, 1)
    IN  IF i = 0 THEN <<s>>
        ELSE <<Slice(s, 1, i - 1), Slice(s, i + Len(sep), Len(s))>>

WhiteSpace == {" ", "\t", "\n", "\r", "\f"}

RECURSIVE TrimLeft(_)
TrimLeft(s) ==
    IF Len(s) > 0 /\ At(s, 1) \in WhiteSpace
    THEN TrimLeft(Slice(s, 2, Len(s))) ELSE s

RECURSIVE TrimRight(_)
TrimRight(s) ==
    IF Len(s) > 0 /\ At(s, Len(s)) \in WhiteSpace
    THEN TrimRight(Slice(s, 1, Len(s) - 1)) ELSE s

TrimSpace(s) == TrimRight(TrimLeft(s))

CharSet(s) == {At(s, i) : i \in 1..Len(s)}

Lower == "abcdefghijklmnopqrstuvwxyz"
Upper == "ABCDEFGHIJKLMNOPQRSTUVWXYZ"

ToLowerChar(c) ==
    LET i == IndexFrom(Upper, c, 1) IN IF i = 0 THEN c ELSE At(Lower, i)

RECURSIVE ToLower(_)
ToLower(s) ==
    IF s = "" THEN ""
    ELSE ToLowerChar(At(s, 1)) \o ToLower(Slice(s, 2, Len(s)))

-----------------------------------------------------------------------------
(* package regexp: QuoteMeta, MustCompile (Valid), MatchString *)

\* The characters regexp.QuoteMeta escapes.
MetaChars == CharSet("\\.+*?()|[]{}^$")

RECURSIVE QuoteMeta(_)
QuoteMeta(s) ==
    IF s = "" THEN ""
    ELSE (IF At(s, 1) \in MetaChars THEN "\\" ELSE "") \o At(s, 1)
         \o QuoteMeta(Slice(s, 2, Len(s)))

\* The expression and the subject as tuples of characters, which is what the
\* operators below index.
RECURSIVE CharsBetween(_, _, _)
CharsBetween(s, i, j) ==
    IF i > j THEN <<>>
    ELSE IF i = j THEN <<At(s, i)>>
    ELSE CharsBetween(s, i, (i + j) \div 2) \o CharsBetween(s, (i + j) \div 2 + 1, j)

Chars(s) == CharsBetween(s, 1, Len(s))

\* The character t[i] of a tuple of characters, "" outside it.
Ch(t, i) == IF i \in DOMAIN t THEN t[i] ELSE ""

Digits == CharSet("0123456789")
WordChars == CharSet(Lower) \cup CharSet(Upper) \cup Digits \cup {"_"}
RepeatOps == {"*", "+", "?"}

\* The index just past the bracket expression opening at i, 0 when it is not
\* closed. A "]" right after "[" or "[^" is a literal.
RECURSIVE ClassScan(_, _)
ClassScan(re, j) ==
    IF j > Len(re) THEN 0
    ELSE IF Ch(re, j) = "]" THEN j + 1
    ELSE IF Ch(re, j) = "\\" THEN ClassScan(re, j + 2)
    ELSE ClassScan(re, j + 1)

ClassBody(re, i) == IF Ch(re, i + 1) = "^" THEN i + 2 ELSE i + 1

ClassEnd(re, i) ==
    LET b == ClassBody(re, i)
    IN  IF Ch(re, b) = "]" THEN ClassScan(re, b + 1) ELSE ClassScan(re, b)

\* An escape the parser accepts: a class (\w, \d) or an escaped punctuation
\* character. The letters of the other escapes never follow a backslash here.
EscapeOK(c) == c \in {"w", "d"} \/ (c # "" /\ c \notin WordChars)

\* regexp/syntax's parse errors in the alternative that starts at i: 0 when it
\* has one, else the index just past the "|" that ends the alternative, or
\* Len(re) + 2 when the expression ends. depth counts the open groups; prev is
\* what precedes i: "none" (nothing a repetition can apply to), "atom", "rep"
\* (a repetition operator, after which only the lazy "?" may follow) or "lazy".
RECURSIVE ScanAlternative(_, _, _, _)
ScanAlternative(re, i, depth, prev) ==
    IF i > Len(re) THEN (IF depth = 0 THEN Len(re) + 2 ELSE 0)
    ELSE LET c == Ch(re, i)
         IN CASE c = "\\" ->
                   IF EscapeOK(Ch(re, i + 1))
                   THEN ScanAlternative(re, i + 2, depth, "atom") ELSE 0
              [] c = "[" ->
                   IF ClassEnd(re, i) # 0
                   THEN ScanAlternative(re, ClassEnd(re, i), depth, "atom") ELSE 0
              [] c = "(" ->
                   IF Ch(re, i + 1) # "?"
                   THEN ScanAlternative(re, i + 1, depth + 1, "none")
                   ELSE IF Ch(re, i + 2) = ":"
                   THEN ScanAlternative(re, i + 3, depth + 1, "none") ELSE 0
              [] c = ")" ->
                   IF depth > 0
                   THEN ScanAlternative(re, i + 1, depth - 1, "atom") ELSE 0
              [] c = "|" ->
                   IF depth = 0 THEN i + 1
                   ELSE ScanAlternative(re, i + 1, depth, "none")
              [] c \in RepeatOps ->
                   IF prev = "atom" THEN ScanAlternative(re, i + 1, depth, "rep")
                   ELSE IF prev = "rep" /\ c = "?"
                   THEN ScanAlternative(re, i + 1, depth, "lazy") ELSE 0
              [] OTHER -> ScanAlternative(re, i + 1, depth, "atom")

RECURSIVE ValidFrom(_, _)
ValidFrom(re, i) ==
    LET next == ScanAlternative(re, i, 0, "none")
    IN  next # 0 /\ (next > Len(re) + 1 \/ ValidFrom(re, next))

\* regexp.MustCompile(expr) returns (does not panic).
Valid(expr) == \E re \in {Chars(expr)} : ValidFrom(re, 1)

\* The index just past the group opening at i (of a valid expression).
RECURSIVE GroupScan(_, _, _)
GroupScan(re, j, depth) ==
    IF j > Len(re) THEN j
    ELSE LET c == Ch(re, j)
         IN CASE c = "\\" -> GroupScan(re, j + 2, depth)
              [] c = "[" -> GroupScan(re, ClassEnd(re, j), depth)
              [] c = "(" -> GroupScan(re, j + 1, depth + 1)
              [] c = ")" -> IF depth = 1 THEN j + 1
                                         ELSE GroupScan(re, j + 1, depth - 1)
              [] OTHER -> GroupScan(re, j + 1, depth)

\* The index just past the atom starting at i.
AtomEnd(re, i) ==
    LET c == Ch(re, i)
    IN CASE c = "\\" -> i + 2
         [] c = "[" -> ClassEnd(re, i)
         [] c = "(" -> GroupScan(re, i + 1, 1)
         [] OTHER -> i + 1

\* The first "|" of re[i..j-1] outside groups and brackets, 0 when none.
RECURSIVE TopBar(_, _, _)
TopBar(re, i, j) ==
    IF i >= j THEN 0
    ELSE IF Ch(re, i) = "|" THEN i
    ELSE TopBar(re, AtomEnd(re, i), j)

\* Whether character ch is one of the items re[i..j-1] of a bracket expression.
RECURSIVE ClassMember(_, _, _, _)
ClassMember(re, i, j, ch) ==
    IF i >= j THEN FALSE
    ELSE LET c == Ch(re, i)
         IN CASE c = "\\" ->
                   (CASE Ch(re, i + 1) = "w" -> ch \in WordChars
                      [] Ch(re, i + 1) = "d" -> ch \in Digits
                      [] OTHER -> ch = Ch(re, i + 1))
                   \/ ClassMember(re, i + 2, j, ch)
              [] OTHER -> ch = c \/ ClassMember(re, i + 1, j, ch)

InClass(re, i, e, ch) ==
    LET b == ClassBody(re, i)
    IN  (Ch(re, i + 1) = "^") # ClassMember(re, b, e - 1, ch)

\* The subject positions (1..Len(s)+1, a position is the index of the next
\* character) at which a match of re[i..j-1] begun at a position of P can end.
RECURSIVE MatchAlt(_, _, _, _, _)
RECURSIVE MatchCat(_, _, _, _, _)
RECURSIVE MatchAtom(_, _, _, _, _)
RECURSIVE MatchStar(_, _, _, _, _)

\* One character consumed: the positions after those of P that are in Q, the
\* positions of the subject whose character the atom accepts.
Step(P, Q) == {p + 1 : p \in P \cap Q}

MatchAtom(re, i, e, s, P) ==
    LET c == Ch(re, i)
    IN CASE c = "(" ->
              MatchAlt(re, IF Ch(re, i + 1) = "?" THEN i + 3 ELSE i + 1,
                       e - 1, s, P)
         [] c = "[" -> Step(P, {q \in DOMAIN s : InClass(re, i, e, s[q])})
         [] c = "\\" ->
              (CASE Ch(re, i + 1) = "w" -> Step(P, {q \in DOMAIN s : s[q] \in WordChars})
                 [] Ch(re, i + 1) = "d" -> Step(P, {q \in DOMAIN s : s[q] \in Digits})
                 [] OTHER -> Step(P, {q \in DOMAIN s : s[q] = Ch(re, i + 1)}))
         [] c = "." -> Step(P, {q \in DOMAIN s : s[q] # "\n"})
         [] c = "^" -> P \cap {1}
         [] c = "$" -> P \cap {Len(s) + 1}
         [] OTHER -> Step(P, {q \in DOMAIN s : s[q] = c})

\* Zero or more matches of the atom re[i..e-1]: N is one more match from P.
StarStep(re, i, e, s, P, N) ==
    IF N \subseteq P THEN P ELSE MatchStar(re, i, e, s, P \cup N)

MatchStar(re, i, e, s, P) == StarStep(re, i, e, s, P, MatchAtom(re, i, e, s, P))

\* The atom re[i..e-1] under the repetition operator q that follows it ("" when
\* none does): N is one match of the atom from P.
MatchRepeat(re, i, e, q, s, P, N) ==
    IF q \in {"*", "+"} THEN MatchStar(re, i, e, s, IF q = "*" THEN P \cup N ELSE N)
    ELSE IF q = "?" THEN P \cup N
    ELSE N

\* The index just past the repetition operator q at e, and past the "?" that
\* makes it lazy (which changes the match preferred, not whether there is one).
AfterRepeat(re, e, q, j) ==
    IF q \notin RepeatOps THEN e
    ELSE IF e + 1 < j /\ Ch(re, e + 1) = "?" THEN e + 2
    ELSE e + 1

\* The atom re[i..e-1] with its repetition operator q, then the rest.
MatchFrom(re, i, e, q, j, s, P) ==
    MatchCat(re, AfterRepeat(re, e, q, j), j, s,
             MatchRepeat(re, i, e, q, s, P, MatchAtom(re, i, e, s, P)))

MatchAtomAt(re, i, e, j, s, P) ==
    MatchFrom(re, i, e, IF e < j THEN Ch(re, e) ELSE "", j, s, P)

MatchCat(re, i, j, s, P) ==
    IF i >= j \/ P = {} THEN P
    ELSE MatchAtomAt(re, i, AtomEnd(re, i), j, s, P)

\* The alternatives of re[i..j-1], k being the first top-level "|" (0: none).
MatchAltAt(re, i, j, k, s, P) ==
    MatchCat(re, i, IF k = 0 THEN j ELSE k, s, P)
    \cup (IF k = 0 THEN {} ELSE MatchAlt(re, k + 1, j, s, P))

MatchAlt(re, i, j, s, P) == MatchAltAt(re, i, j, TopBar(re, i, j), s, P)

\* (*Regexp).MatchString of a compiled (valid) expression: a match anywhere.
MatchString(expr, str) ==
    \E re \in {Chars(expr)}, s \in {Chars(str)} :
        MatchAlt(re, 1, Len(re) + 1, s, 1..(Len(s) + 1)) # {}

-----------------------------------------------------------------------------
(* rules.go: the rule compiler *)

\* regexp.MustCompile(`(\|)[^$]`).ReplaceAllString(rule, `\|`): every leftmost
\* non-overlapping "|" followed by a character other than "$" is replaced,
\* together with that character, by `\|`.
RECURSIVE EscapeOtherBars(_)
EscapeOtherBars(rule) ==
    IF rule = "" THEN ""
    ELSE IF At(rule, 1) = "|" /\ Len(rule) >= 2 /\ At(rule, 2) # "$"
    THEN "\\|" \o EscapeOtherBars(Slice(rule, 3, Len(rule)))
    ELSE At(rule, 1) \o EscapeOtherBars(Slice(rule, 2, Len(rule)))

\* What "^" is replaced with: the separator class, or the end of the address.
SeparatorRe == "(?:[^\\w\\d_\\\\\\-.%]|$)"

\* What a leading "||" is replaced with: the scheme and the subdomains.
DomainStartRe == "^(?:[^:/?#]+:)?(?://(?:[^/?#]*\\.)?)?"

\* rule = QuoteMeta(text) with "|", "^" and "*" unescaped again, then "^" and
\* "*" replaced by their expressions.
Unescaped(text) ==
    LET q  == QuoteMeta(text)
        r1 == ReplaceAll(q, "\\|", "|")
        r2 == ReplaceAll(r1, "\\^", "^")
        r3 == ReplaceAll(r2, "\\*", "*")
        r4 == ReplaceAll(r3, "^", SeparatorRe)
    IN  ReplaceAll(r4, "*", ".*")

\* A trailing "|" is the end of the address.
EndAnchored(rule) ==
    IF At(rule, Len(rule)) = "|" THEN Slice(rule, 1, Len(rule) - 1) \o "$" ELSE rule

\* A leading "||" is the start of the domain name, a leading "|" the start of
\* the address. Only called with Len(rule) >= 2.
StartAnchored(rule) ==
    IF Slice(rule, 1, 2) = "||"
    THEN IF Len(rule) > 2 THEN DomainStartRe \o Slice(rule, 3, Len(rule)) ELSE rule
    ELSE IF At(rule, 1) = "|" THEN "^" \o Slice(rule, 2, Len(rule))
    ELSE rule

\* ruleToRegexp(text): [panic |-> TRUE] when rule[:2] leaves a rule of one
\* character (slice bounds out of range), else the regular expression.
ruleToRegexp(text) ==
    IF text = "" THEN [panic |-> FALSE, regex |-> ".*"]
    ELSE IF Len(text) >= 2 /\ At(text, 1) = "/" /\ At(text, Len(text)) = "/"
    THEN [panic |-> FALSE, regex |-> Slice(text, 2, Len(text) - 1)]
    ELSE LET rule == EndAnchored(Unescaped(text))
         IN  IF Len(rule) < 2 THEN [panic |-> TRUE, regex |-> ""]
             ELSE [panic |-> FALSE, regex |-> EscapeOtherBars(StartAnchored(rule))]


supportedOptions == <<"image", "script", "stylesheet", "font", "thirdparty">>

RECURSIVE Join(_, _)
Join(elems, sep) ==
    IF Len(elems) = 0 THEN ""
    ELSE IF Len(elems) = 1 THEN elems[1]
    ELSE elems[1] \o sep \o Join(Tail(elems), sep)

supportedOptionsPat == Join(supportedOptions, ",")

\* A map[string]bool or map[string]string is a function on its keys.
EmptyMap == <<>>
Put(m, k, v) == (k :> v) @@ m

\* parseDomainOption(text): the entries of "domain=d1|~d2", d -> required.
RECURSIVE DomainEntries(_, _)
DomainEntries(parts, opts) ==
    IF Len(parts) = 0 THEN opts
    ELSE DomainEntries(Tail(parts),
             Put(opts, TrimPrefix(Head(parts), "~"), ~HasPrefix(Head(parts), "~")))

parseDomainOption(text) ==
    DomainEntries(Split(Slice(text, Len("domain=") + 1, Len(text)), "|"), EmptyMap)

\* A token ParseRule's option loop lets through: a substring of
\* supportedOptionsPat.
OptionAccepted(option) == Contains(supportedOptionsPat, option)

\* The loop over the tokens after "$": acc is [ok, options, domains]; the loop
\* returns at the first token that is not accepted.
RECURSIVE ParseOptions(_, _)
ParseOptions(tokens, acc) ==
    IF Len(tokens) = 0 THEN acc
    ELSE LET option == Head(tokens)
         IN  IF HasPrefix(option, "domain=")
             THEN ParseOptions(Tail(tokens),
                      [acc EXCEPT !.domains = parseDomainOption(option)])
             ELSE IF ~OptionAccepted(option) THEN [acc EXCEPT !.ok = FALSE]
             ELSE ParseOptions(Tail(tokens),
                      [acc EXCEPT !.options = Put(@, TrimPrefix(option, "~"),
                                                  ~HasPrefix(option, "~"))])

NilRule == [nil |-> TRUE]

\* The errors after which NewRuleSetFromStr goes on with the next line.
SkipSignals == {"ErrSkipComment", "ErrSkipHTML", "ErrUnsupportedRule"}

\* What ParseRule has done: err is "nil", one of the three skip errors, or
\* "panic" when the call does not return.
Outcome(rule, err) == [rule |-> rule, err |-> err]

ParseRule(ruleText) ==
    LET trimmed     == TrimSpace(ruleText)
        isComment   == Contains(trimmed, "!") \/ Contains(trimmed, "[Adblock")
        isHTMLRule  == Contains(trimmed, "##") \/ Contains(trimmed, "#@#")
        isException == HasPrefix(trimmed, "@@")
        text        == IF isException THEN Slice(trimmed, 3, Len(trimmed)) ELSE trimmed
        hasOptions  == Contains(text, "$")
        parts       == SplitN2(text, "$")
        opts        == IF hasOptions /\ Len(parts) > 1
                       THEN ParseOptions(Split(parts[2], ","),
                                [ok |-> TRUE, options |-> EmptyMap, domains |-> EmptyMap])
                       ELSE [ok |-> TRUE, options |-> EmptyMap, domains |-> EmptyMap]
        pattern     == IF hasOptions THEN parts[1] ELSE text
        compiled    == ruleToRegexp(pattern)
    IN  IF isComment THEN Outcome(NilRule, "ErrSkipComment")
        ELSE IF isHTMLRule THEN Outcome(NilRule, "ErrSkipHTML")
        ELSE IF ~opts.ok THEN Outcome(NilRule, "ErrUnsupportedRule")
        ELSE IF compiled.panic THEN Outcome(NilRule, "panic")
        ELSE Outcome([nil         |-> FALSE,
                      raw         |-> ruleText,
                      ruleText    |-> pattern,
                      regexString |-> compiled.regex,
                      options     |-> opts.options,
                      isException |-> isException,
                      domains     |-> opts.domains], "nil")

-----------------------------------------------------------------------------
(* rules.go: the filter set builder *)

\* A *regexp.Regexp field: nil, or the expression it was compiled from.
Nil == [compiled |-> FALSE]
Compiled(expr) == [compiled |-> TRUE, expr |-> expr]

\* m[k] of a Go map: the zero value when k is not a key.
StringAt(m, k) == IF k \in DOMAIN m THEN m[k] ELSE ""

\* A cache lookup that takes whatever entry the map holds, under any key: what
\* the lookup of Match would be if the expressions shared one cache slot.
RegexAtAny(m, k) == IF DOMAIN m = {} THEN Nil ELSE m[CHOOSE x \in DOMAIN m : TRUE]

RegexAt(m, k) == IF k \in DOMAIN m THEN m[k] ELSE Nil

\* a + `|` + b, or b alone while a is still the empty string.
Merged(alternation, regexString) ==
    IF alternation = "" THEN regexString ELSE alternation \o "|" \o regexString

\* One iteration of the parsing loop on an accepted rule.
AddRule(acc, rule) ==
    IF DOMAIN rule.options # {}
    THEN [acc EXCEPT !.rulesOptionsString =
             [o \in DOMAIN @ \cup DOMAIN rule.options |->
                 IF o \in DOMAIN rule.options
                 THEN Merged(StringAt(@, o), rule.regexString)
                 ELSE @[o]]]
    ELSE [acc EXCEPT !.regexBasicString = Merged(@, rule.regexString)]

\* The parsing loop: a skip error leaves the strings alone, a panic of
\* ParseRule ends the call. (ParseRule returns no other error, so the loop's
\* default case is never taken.)
RECURSIVE ParseLoop(_, _)

\* One iteration on what ParseRule made of the line, then the rest of the loop.
ParseStep(rest, acc, out) ==
    CASE out.err = "panic" -> [acc EXCEPT !.panic = TRUE]
      [] out.err = "nil" -> ParseLoop(rest, AddRule(acc, out.rule))
      [] OTHER -> ParseLoop(rest, acc)

ParseLoop(lines, acc) ==
    IF Len(lines) = 0 THEN acc
    ELSE ParseStep(Tail(lines), acc, ParseRule(Head(lines)))

NewRuleSetFromStr(lines) ==
    ParseLoop(lines,
        [panic              |-> FALSE,
         regexBasicString   |-> "",
         regexBasic         |-> Nil,
         rulesOptionsString |-> [o \in {supportedOptions[i] : i \in 1..Len(supportedOptions)} |-> ""],
         rulesOptionsRegex  |-> EmptyMap])

-----------------------------------------------------------------------------
(* rules.go: the matching engine *)

\* A Request: url is req.URL.String(), path req.URL.Path, hostname
\* req.URL.Hostname(), referer req.Referer.
Request(hostname, path, referer) ==
    [url |-> "http://" \o hostname \o path, path |-> path,
     hostname |-> hostname, referer |-> referer]

RECURSIVE StripTrailingSlashes(_)
StripTrailingSlashes(path) ==
    IF Len(path) > 0 /\ At(path, Len(path)) = "/"
    THEN StripTrailingSlashes(Slice(path, 1, Len(path) - 1)) ELSE path

RECURSIVE LastSlash(_, _)
LastSlash(path, i) ==
    IF i = 0 THEN 0 ELSE IF At(path, i) = "/" THEN i ELSE LastSlash(path, i - 1)

\* path.Base
Base(path) ==
    IF path = "" THEN "."
    ELSE LET stripped == StripTrailingSlashes(path)
             last     == Slice(stripped, LastSlash(stripped, Len(stripped)) + 1,
                               Len(stripped))
         IN  IF last = "" THEN "/" ELSE last

ScriptRe == "(?:\\.js$|\\.js\\.gz$)"
ImageRe ==
    "(?:\\.jpg$|\\.jpeg$|\\.png$|\\.gif$|\\.webp$|\\.tiff$|\\.psd$|\\.raw$|\\.bmp$|\\.heif$|\\.indd$|\\.jpeg2000$)"
StylesheetRe == "(?:\\.css$)"
FontRe == "(?:\\.otf|\\.ttf|\\.fnt)"

extractOptionsFromRequest(req) ==
    LET filename == Base(req.path)
    IN  [script     |-> MatchString(ScriptRe, filename),
         image      |-> MatchString(ImageRe, filename),
         stylesheet |-> MatchString(StylesheetRe, filename),
         font       |-> MatchString(FontRe, filename),
         thirdparty |-> req.referer # ""]

\* The requests of the model.
Requests ==
    {Request("x.io", "/ad.png", ""),
     Request("x.io", "/ad.html", ""),
     Request("y.io", "/ad.png.js", "http://x.io/"),
     Request("x.io", "/AD.PNG", "")}

\* extractOptionsFromRequest of each request of the model, computed once.
DerivedOptions == {<<req, extractOptionsFromRequest(req)>> : req \in Requests}
OptionsOf(req) == (CHOOSE p \in DerivedOptions : p[1] = req)[2]

\* A test that leaves out the check for the empty alternation.
DidMatchUnguarded(expr, regex, url) == MatchString(regex.expr, url)

\* did_match after `if <alternation string> != "" { did_match =
\* <compiled alternation>.MatchString(req.URL.String()) }`.
DidMatch(expr, regex, url) == expr # "" /\ MatchString(regex.expr, url)

\* A finished or unfinished run of Match: result is "true", "false", "panic",
\* or "running" while the loop over the options goes on.
Ran(rs, result) == [ruleSet |-> rs, result |-> result]

\* The loop over the derived options, in the order the map iteration yields
\* them. An option whose flag is false has no effect.
RECURSIVE MatchOptions(_, _, _, _)
MatchOptions(rs, req, options, order) ==
    IF Len(order) = 0 THEN Ran(rs, "false")
    ELSE LET option == Head(order)
             expr   == StringAt(rs.rulesOptionsString, option)
             stored == IF RegexAt(rs.rulesOptionsRegex, option) = Nil
                       THEN [rs EXCEPT !.rulesOptionsRegex = Put(@, option, Compiled(expr))]
                       ELSE rs
         IN  IF ~options[option] THEN MatchOptions(rs, req, options, Tail(order))
             ELSE IF RegexAt(rs.rulesOptionsRegex, option) = Nil /\ ~Valid(expr)
             THEN Ran(rs, "panic")
             ELSE IF DidMatch(expr, RegexAt(stored.rulesOptionsRegex, option), req.url)
             THEN Ran(stored, "true")
             ELSE MatchOptions(stored, req, options, Tail(order))

\* (*RuleSet).Match with the options visited in the given order: the outcome
\* and the RuleSet it leaves.
Match(rs, req, order) ==
    LET stored == IF rs.regexBasic = Nil
                  THEN [rs EXCEPT !.regexBasic = Compiled(rs.regexBasicString)]
                  ELSE rs
    IN  IF rs.regexBasic = Nil /\ ~Valid(rs.regexBasicString) THEN Ran(rs, "panic")
        ELSE IF DidMatch(stored.regexBasicString, stored.regexBasic, req.url)
        THEN Ran(stored, "true")
        ELSE MatchOptions(stored, req, OptionsOf(req), order)

\* (*RuleSet).Allow: the negation of Match.
Negated(ran) ==
    Ran(ran.ruleSet, CASE ran.result = "true" -> "false"
                       [] ran.result = "false" -> "true"
                       [] OTHER -> ran.result)

Allow(rs, req, order) == Negated(Match(rs, req, order))

-----------------------------------------------------------------------------
(* The inputs *)

MaxLen == 3     \* the longest pattern text ParseRule is given
MaxLines == 2   \* the longest list NewRuleSetFromStr is given
NumCallers == 2 \* the callers that run Match at the same time

PatternChars == CharSet("a|^*/.")

RECURSIVE Texts(_)
Texts(n) ==
    IF n = 0 THEN {""}
    ELSE Texts(n - 1) \cup {t \o c : t \in Texts(n - 1), c \in PatternChars}

OptionSuffixes ==
    {"", "$", "$image", "$~image", "$imag", "$image,script", "$popup",
     "$domain=x.io", "$domain=x.io|~y.io,font"}

ParseLines ==
    {t \o s : t \in Texts(MaxLen), s \in OptionSuffixes}
    \cup {"!ad", "[Adblock Plus 2.0]", "ad##div", "ad#@#div", " ad ", "@@ad",
          "@@||x.io^$image", "a|b", "/ad|b/"}

\* The lines of the lists that are built and then matched against.
MatchLines ==
    {"ad.html", "ad$image", "||y.io^$script,thirdparty", "/*/", "/*/$script"}

\* The lines of the lists of one line that are built and then matched against.
SingleLines ==
    {"|http://x.io/ad.png|", "|HTTP://X.IO/AD.PNG|", "|http://x.io/ad|",
     "ad$domain=y.io", "ad$domain=x.io", "ad$domain=~x.io", "ad$domain=x.io|~y.io"}

\* The lines of the lists that are matched against by several callers.
ConcLines == {"ad.html", "ad$image", "y.io^$script", "/*/$image"}

\* The lines of the lists that are only built.
BuildLines ==
    {"ad", "x.io^", "ad$image", "ad$image,script", "@@ad$font",
     "ad$domain=y.io", "!ad", "ad##b", "ad$popup", "ad$~image", "//", "a"}

RECURSIVE Lists(_, _)
Lists(lines, n) ==
    IF n = 0 THEN {<<>>}
    ELSE Lists(lines, n - 1)
         \cup {Append(l, x) : l \in Lists(lines, n - 1), x \in lines}

OptionNames == {supportedOptions[i] : i \in 1..Len(supportedOptions)}

\* The sequences that list every element of S once.
RECURSIVE Perms(_)
Perms(S) ==
    IF S = {} THEN {<<>>}
    ELSE UNION {{<<x>> \o f : f \in Perms(S \ {x})} : x \in S}

\* The orders in which the iteration over the derived options can visit them.
\* The options whose flag is false have no effect wherever they come, so they
\* are put last in one order.
Orders(req) ==
    LET options  == OptionsOf(req)
        active   == {o \in OptionNames : options[o]}
        inactive == CHOOSE f \in Perms(OptionNames \ active) : TRUE
    IN  {f \o inactive : f \in Perms(active)}

-----------------------------------------------------------------------------
(* The state machine *)

NotParsed == Outcome(NilRule, "none")
NoRuleSet == [nil |-> TRUE]
NoRequest == [url |-> "", path |-> "", hostname |-> "", referer |-> ""]

RuleSetOf(acc) ==
    [regexBasicString   |-> acc.regexBasicString,
     regexBasic         |-> acc.regexBasic,
     rulesOptionsString |-> acc.rulesOptionsString,
     rulesOptionsRegex  |-> acc.rulesOptionsRegex]

(* ParseRule on one line *)

InitParse ==
    /\ mode = "parse"
    /\ line \in ParseLines
    /\ parsed = NotParsed
    /\ rulesStr = <<>>
    /\ built = "no"
    /\ ruleSet = NoRuleSet
    /\ lastCall = "none"
    /\ lastReq = NoRequest
    /\ lastResult = "none"
    /\ callers = <<>>
    /\ writes = <<>>

DoParseRule ==
    /\ mode = "parse"
    /\ parsed = NotParsed
    /\ parsed' = ParseRule(line)
    /\ UNCHANGED <<mode, line, rulesStr, built, ruleSet, lastCall, lastReq,
                   lastResult, callers, writes>>

NextParse == DoParseRule

SpecParse == InitParse /\ [][NextParse]_vars

(* NewRuleSetFromStr on a list of lines, then Match and Allow, one at a time *)

Init ==
    /\ mode = "set"
    /\ line = ""
    /\ parsed = NotParsed
    /\ rulesStr \in Lists(MatchLines, MaxLines)
    /\ built = "no"
    /\ ruleSet = NoRuleSet
    /\ lastCall = "none"
    /\ lastReq = NoRequest
    /\ lastResult = "none"
    /\ callers = <<>>
    /\ writes = <<>>

DoNewRuleSetFromStr ==
    /\ mode \in {"set", "build", "conc"}
    /\ built = "no"
    /\ \E acc \in {NewRuleSetFromStr(rulesStr)} :
          /\ built' = IF acc.panic THEN "panic" ELSE "ok"
          /\ ruleSet' = IF acc.panic THEN NoRuleSet ELSE RuleSetOf(acc)
    /\ UNCHANGED <<mode, line, parsed, rulesStr, lastCall, lastReq, lastResult,
                   callers, writes>>

DoMatch(req) ==
    /\ mode = "set"
    /\ built = "ok"
    /\ \E order \in Orders(req) :
          \E ran \in {Match(ruleSet, req, order)} :
             /\ ruleSet' = ran.ruleSet
             /\ lastResult' = ran.result
    /\ lastCall' = "Match"
    /\ lastReq' = req
    /\ UNCHANGED <<mode, line, parsed, rulesStr, built, callers, writes>>

DoAllow(req) ==
    /\ mode = "set"
    /\ built = "ok"
    /\ \E order \in Orders(req) :
          \E ran \in {Allow(ruleSet, req, order)} :
             /\ ruleSet' = ran.ruleSet
             /\ lastResult' = ran.result
    /\ lastCall' = "Allow"
    /\ lastReq' = req
    /\ UNCHANGED <<mode, line, parsed, rulesStr, built, callers, writes>>

Next ==
    \/ DoNewRuleSetFromStr
    \/ \E req \in Requests : DoMatch(req)
    \/ \E req \in Requests : DoAllow(req)

Spec == Init /\ [][Next]_vars

(* The same on the lists of one line of SingleLines *)

InitSingle ==
    /\ mode = "set"
    /\ line = ""
    /\ parsed = NotParsed
    /\ rulesStr \in Lists(SingleLines, 1)
    /\ built = "no"
    /\ ruleSet = NoRuleSet
    /\ lastCall = "none"
    /\ lastReq = NoRequest
    /\ lastResult = "none"
    /\ callers = <<>>
    /\ writes = <<>>

SpecSingle == InitSingle /\ [][Next]_vars

(* NewRuleSetFromStr alone, on the lists of BuildLines *)

InitBuild ==
    /\ mode = "build"
    /\ line = ""
    /\ parsed = NotParsed
    /\ rulesStr \in Lists(BuildLines, MaxLines)
    /\ built = "no"
    /\ ruleSet = NoRuleSet
    /\ lastCall = "none"
    /\ lastReq = NoRequest
    /\ lastResult = "none"
    /\ callers = <<>>
    /\ writes = <<>>

NextBuild == DoNewRuleSetFromStr

SpecBuild == InitBuild /\ [][NextBuild]_vars


(* Match run by NumCallers callers at the same time on one built RuleSet.
   A step is what a caller does between two accesses to the shared RuleSet. *)

Callers == 1..NumCallers

\* The cache fields of a RuleSet: regexBasic and the rulesOptionsRegex entries.
Fields == {"regexBasic"} \cup OptionNames

\* A caller: where it is in Match, its request, the options its loop has still
\* to visit, and what Match returned.
Idle == [pc |-> "idle", req |-> NoRequest, order |-> <<>>, result |-> "none"]

\* The derived options whose flag is false are skipped by the loop.
RECURSIVE SkipInactive(_, _)
SkipInactive(options, order) ==
    IF Len(order) > 0 /\ ~options[Head(order)]
    THEN SkipInactive(options, Tail(order)) ELSE order

\* The caller at the head of the loop over the remaining options.
AtLoop(c, order) ==
    IF Len(order) = 0
    THEN [callers[c] EXCEPT !.pc = "done", !.result = "false", !.order = order]
    ELSE [callers[c] EXCEPT !.pc = "option", !.order = order]

\* Another caller is in the middle of an assignment to the rulesOptionsRegex map.
MapWriteInProgress(c) == \E d \in Callers \ {c} : callers[d].pc = "storeOption"

InitConc ==
    /\ mode = "conc"
    /\ line = ""
    /\ parsed = NotParsed
    /\ rulesStr \in Lists(ConcLines, MaxLines)
    /\ built = "no"
    /\ ruleSet = NoRuleSet
    /\ lastCall = "none"
    /\ lastReq = NoRequest
    /\ lastResult = "none"
    /\ callers = [c \in Callers |-> Idle]
    /\ writes = [f \in Fields |-> 0]

\* The requests of the callers.
ConcRequests ==
    {Request("x.io", "/ad.png", ""), Request("y.io", "/ad.png.js", "http://x.io/")}

\* Match is entered: `ruleSet.regexBasic == nil` is read.
Enter(c, req) ==
    /\ mode = "conc" /\ built = "ok"
    /\ callers[c].pc = "idle"
    /\ callers' = [callers EXCEPT ![c] =
           [@ EXCEPT !.req = req,
                     !.pc = IF ruleSet.regexBasic = Nil THEN "compileBasic"
                                                        ELSE "testBasic"]]
    /\ UNCHANGED <<mode, line, parsed, rulesStr, built, ruleSet, lastCall, lastReq,
                   lastResult, writes>>

\* `ruleSet.regexBasic = regexp.MustCompile(ruleSet.regexBasicString)` by a
\* caller that has read nil.
CompileBasic(c) ==
    /\ callers[c].pc = "compileBasic"
    /\ IF Valid(ruleSet.regexBasicString)
       THEN /\ ruleSet' = [ruleSet EXCEPT !.regexBasic = Compiled(ruleSet.regexBasicString)]
            /\ writes' = [writes EXCEPT !["regexBasic"] = @ + 1]
            /\ callers' = [callers EXCEPT ![c].pc = "testBasic"]
       ELSE /\ callers' = [callers EXCEPT ![c].pc = "done", ![c].result = "panic"]
            /\ UNCHANGED <<ruleSet, writes>>
    /\ UNCHANGED <<mode, line, parsed, rulesStr, built, lastCall, lastReq, lastResult>>

\* The match against regexBasic, then extractOptionsFromRequest and the start
\* of the loop, in one of the orders the iteration can take.
TestBasic(c) ==
    /\ callers[c].pc = "testBasic"
    /\ \E order \in Orders(callers[c].req) :
          callers' = [callers EXCEPT ![c] =
              IF DidMatch(ruleSet.regexBasicString, ruleSet.regexBasic, callers[c].req.url)
              THEN [@ EXCEPT !.pc = "done", !.result = "true"]
              ELSE AtLoop(c, SkipInactive(OptionsOf(callers[c].req), order))]
    /\ UNCHANGED <<mode, line, parsed, rulesStr, built, ruleSet, lastCall, lastReq,
                   lastResult, writes>>

\* `ruleSet.rulesOptionsRegex[option] == nil` is read for an active option.
ReadOption(c) ==
    /\ callers[c].pc = "option"
    /\ callers' = [callers EXCEPT ![c].pc =
           IF RegexAt(ruleSet.rulesOptionsRegex, Head(callers[c].order)) = Nil
           THEN "compileOption" ELSE "testOption"]
    /\ UNCHANGED <<mode, line, parsed, rulesStr, built, ruleSet, lastCall, lastReq,
                   lastResult, writes>>

\* regexp.MustCompile(ruleSet.rulesOptionsString[option]) by a caller that has
\* read nil; the assignment to the map entry begins.
CompileOption(c) ==
    /\ callers[c].pc = "compileOption"
    /\ callers' = [callers EXCEPT ![c] =
           IF Valid(StringAt(ruleSet.rulesOptionsString, Head(callers[c].order)))
           THEN [@ EXCEPT !.pc = "storeOption"]
           ELSE [@ EXCEPT !.pc = "done", !.result = "panic"]]
    /\ UNCHANGED <<mode, line, parsed, rulesStr, built, ruleSet, lastCall, lastReq,
                   lastResult, writes>>

\* The assignment to ruleSet.rulesOptionsRegex[option] ends.
StoreOption(c) ==
    /\ callers[c].pc = "storeOption"
    /\ \E option \in {Head(callers[c].order)} :
          /\ ruleSet' = [ruleSet EXCEPT !.rulesOptionsRegex =
                 Put(@, option, Compiled(StringAt(ruleSet.rulesOptionsString, option)))]
          /\ writes' = [writes EXCEPT ![option] = @ + 1]
    /\ callers' = [callers EXCEPT ![c].pc = "testOption"]
    /\ UNCHANGED <<mode, line, parsed, rulesStr, built, lastCall, lastReq, lastResult>>

\* The match against the option's expression, then the next turn of the loop.
TestOption(c) ==
    /\ callers[c].pc = "testOption"
    /\ \E option \in {Head(callers[c].order)} :
          callers' = [callers EXCEPT ![c] =
              IF DidMatch(StringAt(ruleSet.rulesOptionsString, option),
                          RegexAt(ruleSet.rulesOptionsRegex, option), callers[c].req.url)
              THEN [@ EXCEPT !.pc = "done", !.result = "true"]
              ELSE AtLoop(c, SkipInactive(OptionsOf(callers[c].req), Tail(callers[c].order)))]
    /\ UNCHANGED <<mode, line, parsed, rulesStr, built, ruleSet, lastCall, lastReq,
                   lastResult, writes>>

\* A caller reaches an access to the rulesOptionsRegex map while another
\* caller's assignment to it is in progress: the runtime may detect it
\* ("concurrent map writes", "concurrent map read and map write") and end the
\* process, which ends every caller.
Throw(c) ==
    /\ callers[c].pc \in {"option", "compileOption", "testOption"}
    /\ MapWriteInProgress(c)
    /\ callers' = [d \in Callers |->
           IF callers[d].pc = "done" THEN callers[d]
           ELSE [callers[d] EXCEPT !.pc = "done", !.result = "fatal"]]
    /\ UNCHANGED <<mode, line, parsed, rulesStr, built, ruleSet, lastCall, lastReq,
                   lastResult, writes>>

NextConc ==
    \/ DoNewRuleSetFromStr
    \/ \E c \in Callers, req \in ConcRequests : Enter(c, req)
    \/ \E c \in Callers : CompileBasic(c)
    \/ \E c \in Callers : TestBasic(c)
    \/ \E c \in Callers : ReadOption(c)
    \/ \E c \in Callers : CompileOption(c)
    \/ \E c \in Callers : StoreOption(c)
    \/ \E c \in Callers : TestOption(c)
    \/ \E c \in Callers : Throw(c)

SpecConc == InitConc /\ [][NextConc]_vars

-----------------------------------------------------------------------------
(* The properties *)

\* The RuleSet NewRuleSetFromStr returns for the lines of this behaviour,
\* before any Match.
Fresh == RuleSetOf(NewRuleSetFromStr(rulesStr))

\* An alternation that is non-empty and matches the address.
Matches(expr, url) == expr # "" /\ Valid(expr) /\ MatchString(expr, url)

\* The request is blocked in the sense of C1: by the unconditional alternation,
\* or by the alternation of an option whose derived flag is true.
Blocked(rs, req) ==
    \/ Matches(rs.regexBasicString, req.url)
    \/ \E o \in OptionNames :
          OptionsOf(req)[o] /\ Matches(StringAt(rs.rulesOptionsString, o), req.url)

Decision(b) == IF b THEN "true" ELSE "false"

\* C1: Match returns true exactly when the unconditional alternation is
\* non-empty and matches the request's address, or an option whose derived flag
\* is true has a non-empty alternation that matches it; otherwise Match returns
\* false (and Allow the opposite).
C1_MatchSemantics ==
    /\ lastCall = "Match" => lastResult = Decision(Blocked(ruleSet, lastReq))
    /\ lastCall = "Allow" => lastResult = Decision(~Blocked(ruleSet, lastReq))

\* Every alternation Match compiles for the request is a regular expression.
Compilable(rs, req) ==
    /\ Valid(rs.regexBasicString)
    /\ \A o \in OptionNames :
          OptionsOf(req)[o] => Valid(StringAt(rs.rulesOptionsString, o))

\* What Match returns according to C1 as amended: the decision of C1 when every
\* alternation it compiles is a regular expression; a panic when the
\* unconditional alternation is not one; and when the alternation of an option
\* whose flag is true is not one, a panic or, if an alternation visited before
\* it matches, true.
Returned(rs, req, result) ==
    IF Compilable(rs, req) THEN result = Decision(Blocked(rs, req))
    ELSE IF ~Valid(rs.regexBasicString) THEN result = "panic"
    ELSE result = "panic" \/ (result = "true" /\ Blocked(rs, req))

\* C1 (amended): Match returns true exactly when the unconditional alternation
\* or the alternation of an option whose derived flag is true is non-empty and
\* matches the address, provided the alternations it compiles are regular
\* expressions; otherwise it panics (or returns true on an earlier match).
\* Allow returns the opposite decision.
C1_MatchSemanticsWhenCompilable ==
    /\ lastCall = "Match" => Returned(ruleSet, lastReq, lastResult)
    /\ lastCall = "Allow" =>
          Returned(ruleSet, lastReq,
                   CASE lastResult = "true" -> "false"
                     [] lastResult = "false" -> "true"
                     [] OTHER -> lastResult)

\* C1's case: the set holding only an image rule has blocked the address whose
\* path ends in .png.
C1_Witness ==
    /\ rulesStr = <<"ad$image">>
    /\ lastCall = "Match"
    /\ lastReq = Request("x.io", "/ad.png", "")
    /\ lastResult = "true"

\* C2: ParseRule is total: it returns a Rule with a nil error, or one of the
\* three skip signals with a nil Rule, and fails in no other way.
C2_ParseRuleTotal ==
    parsed # NotParsed =>
        \/ parsed.err = "nil" /\ ~parsed.rule.nil
        \/ parsed.err \in SkipSignals /\ parsed.rule.nil

\* The tokens after the first "$" of a line.
OptionTokens(l) == Split(SplitN2(TrimSpace(l), "$")[2], ",")

\* A token of the vocabulary of C3: a supported option, negated or not.
InVocabulary(token) == TrimPrefix(token, "~") \in OptionNames

\* C3: a line with a "$" yields ErrUnsupportedRule exactly when one of its
\* tokens other than "domain=..." is not a supported option after an optional
\* leading "~" is stripped; a negated supported token is recorded as excluded.
C3_OptionVocabulary ==
    (parsed # NotParsed /\ parsed.err \notin {"ErrSkipComment", "ErrSkipHTML"}
        /\ Contains(line, "$")) =>
        \E tokens \in {OptionTokens(line)} :
            /\ (parsed.err = "ErrUnsupportedRule") <=>
                  (\E i \in 1..Len(tokens) :
                      ~HasPrefix(tokens[i], "domain=") /\ ~InVocabulary(tokens[i]))
            /\ parsed.err = "nil" =>
                  \A i \in 1..Len(tokens) :
                      (~HasPrefix(tokens[i], "domain=") /\ InVocabulary(tokens[i])) =>
                          /\ TrimPrefix(tokens[i], "~") \in DOMAIN parsed.rule.options
                          /\ parsed.rule.options[TrimPrefix(tokens[i], "~")]
                                = ~HasPrefix(tokens[i], "~")

\* What ParseRule makes of each line of a list.
Outcomes(lines) == [i \in 1..Len(lines) |-> ParseRule(lines[i])]

\* The pattern strings of the rules of outs, in order.
PatternsOf(outs) == [i \in 1..Len(outs) |-> outs[i].rule.regexString]

\* The alternation C4 and C9 expect for option o ("" stands for the
\* unconditional alternation): the patterns of the rules of outs that declare
\* o (that declare no option), in input order, joined by "|".
ExpectedAlternation(outs, o) ==
    Join(PatternsOf(SelectSeq(outs,
            LAMBDA out : IF o = "" THEN DOMAIN out.rule.options = {}
                                   ELSE o \in DOMAIN out.rule.options)), "|")

\* The merged pattern strings of rs are the expected alternations of outs.
HoldsExactly(rs, outs) ==
    /\ rs.regexBasicString = ExpectedAlternation(outs, "")
    /\ \A o \in DOMAIN rs.rulesOptionsString \cup OptionNames :
          StringAt(rs.rulesOptionsString, o) = ExpectedAlternation(outs, o)

\* C4: on a list of N valid lines and M soft-skippable lines (the lines for
\* which ParseRule gives a skip signal), NewRuleSetFromStr returns a nil error
\* and a RuleSet whose merged pattern strings hold exactly the patterns of the
\* N valid lines.
C4_SkippedLinesAddNothing ==
    built # "no" =>
        /\ built = "ok"
        /\ \E valid \in {SelectSeq(Outcomes(rulesStr),
                                   LAMBDA out : out.err \notin SkipSignals)} :
              HoldsExactly(ruleSet, valid)

\* A line |T| whose pattern text is wrapped in single pipes.
ExactAddress(l) ==
    /\ Len(l) >= 3 /\ At(l, 1) = "|" /\ At(l, Len(l)) = "|"
    /\ ~Contains(Slice(l, 2, Len(l) - 1), "|") /\ ~Contains(l, "$")

\* C5: a set made of one exact-address rule |T| blocks a request exactly when
\* the request's address equals T, compared without regard to letter case.
C5_ExactAddressCaseInsensitive ==
    (Len(rulesStr) = 1 /\ lastCall = "Match") =>
        (ExactAddress(rulesStr[1]) =>
            ((lastResult = "true") <=>
                (ToLower(lastReq.url)
                    = ToLower(Slice(rulesStr[1], 2, Len(rulesStr[1]) - 1)))))

\* C6: a request blocked by a set made of one rule with a domain restriction
\* has a hostname that contains every required domain and no excluded one.
C6_DomainRestrictionRespected ==
    (Len(rulesStr) = 1 /\ lastCall = "Match" /\ lastResult = "true") =>
        \E out \in {ParseRule(rulesStr[1])} :
            out.err = "nil" =>
                \A d \in DOMAIN out.rule.domains :
                    out.rule.domains[d] <=> Contains(lastReq.hostname, d)

\* C7: after any sequence of Match and Allow calls, the last call returned
\* the one result the freshly built RuleSet gives for its request, whatever the
\* order of the iteration over the request's options.
C7_SameResultOnEveryCall ==
    (built = "ok" /\ lastCall \in {"Match", "Allow"}) =>
        \A order \in Orders(lastReq) :
            lastResult = IF lastCall = "Match"
                         THEN Match(Fresh, lastReq, order).result
                         ELSE Allow(Fresh, lastReq, order).result

\* C7 (amended): after any sequence of Match and Allow calls, Match gives for
\* every request and every order of the iteration over its options the result
\* the freshly built RuleSet gives under that order, the last call returned a
\* result the fresh RuleSet returns, and the pattern strings are those of the
\* fresh RuleSet; the result does not depend on the order when the
\* alternations compiled for the request are regular expressions.
C7_LazyCompilationTransparent ==
    built = "ok" =>
        \E fresh \in {Fresh} :
            /\ ruleSet.regexBasicString = fresh.regexBasicString
            /\ ruleSet.rulesOptionsString = fresh.rulesOptionsString
            /\ \A req \in Requests : \A order \in Orders(req) :
                  /\ Match(ruleSet, req, order).result = Match(fresh, req, order).result
                  /\ Compilable(fresh, req) =>
                        Match(ruleSet, req, order).result = Decision(Blocked(fresh, req))
            /\ lastCall = "Match" =>
                  \E order \in Orders(lastReq) :
                      lastResult = Match(fresh, lastReq, order).result
            /\ lastCall = "Allow" =>
                  \E order \in Orders(lastReq) :
                      lastResult = Allow(fresh, lastReq, order).result

\* C7's case: both caches are filled (the unconditional expression and the
\* expressions of two options, which takes calls with different requests) and a
\* further call has returned.
C7_Witness ==
    /\ built = "ok"
    /\ ruleSet.regexBasic # Nil
    /\ {"image", "script"} \subseteq DOMAIN ruleSet.rulesOptionsRegex
    /\ lastCall = "Match"
    /\ lastResult = "false"

\* C8: when several callers run Match on one freshly built RuleSet, every
\* cache field is stored at most once, no two callers are at a store to the
\* same field or to the cache map at the same time, and every caller gets a
\* result it would get when run alone.
C8_ConcurrentMatchSafe ==
    /\ \A f \in Fields : writes[f] <= 1
    /\ \A c, d \in Callers :
          c # d => /\ ~(callers[c].pc = "compileBasic" /\ callers[d].pc = "compileBasic")
                   /\ ~(callers[c].pc = "storeOption" /\ callers[d].pc = "storeOption")
    /\ \A c \in Callers :
          callers[c].result # "none" =>
              \E order \in Orders(callers[c].req) :
                  callers[c].result = Match(Fresh, callers[c].req, order).result

\* C9: after NewRuleSetFromStr succeeds, the rules ParseRule accepted are
\* joined by "|", in input order, into the alternations of exactly the options
\* each declares, and into the unconditional alternation when it declares none.
C9_RuleContributesToItsOptions ==
    built = "ok" =>
        \E accepted \in {SelectSeq(Outcomes(rulesStr), LAMBDA out : out.err = "nil")} :
            HoldsExactly(ruleSet, accepted)

\* The parts of a pattern text: the leading anchor ("||", "|" or none), the
\* trailing "|" anchor if any, and the body between them.
LeadOf(text) ==
    IF HasPrefix(text, "||") THEN "||" ELSE IF HasPrefix(text, "|") THEN "|" ELSE ""

HasTrail(text) == Len(text) > Len(LeadOf(text)) /\ At(text, Len(text)) = "|"

BodyOf(text) ==
    Slice(text, Len(LeadOf(text)) + 1, Len(text) - (IF HasTrail(text) THEN 1 ELSE 0))

\* The translation of one character of the body, a "|" being escaped.
Translated(c) ==
    CASE c = "|" -> "\\|"
      [] c = "^" -> SeparatorRe
      [] c = "*" -> ".*"
      [] OTHER -> QuoteMeta(c)

RECURSIVE TranslatedBody(_)
TranslatedBody(body) ==
    IF body = "" THEN ""
    ELSE Translated(At(body, 1)) \o TranslatedBody(Slice(body, 2, Len(body)))

\* The translation C10 describes: the anchors, and every character of the body
\* translated in place.
ExpectedRegexp(text) ==
    (CASE LeadOf(text) = "||" -> DomainStartRe
       [] LeadOf(text) = "|" -> "^"
       [] OTHER -> "")
    \o TranslatedBody(BodyOf(text))
    \o (IF HasTrail(text) THEN "$" ELSE "")

SlashWrapped(text) ==
    Len(text) >= 2 /\ At(text, 1) = "/" /\ At(text, Len(text)) = "/"

\* C10: for a pattern text that is not wrapped in /.../ and has a "|" in its
\* body, ruleToRegexp gives the translation in which that "|" is the escaped
\* literal and every other character is kept.
C10_BodyBarEscaped ==
    (parsed.err = "nil" /\ ~SlashWrapped(parsed.rule.ruleText)
        /\ Contains(BodyOf(parsed.rule.ruleText), "|")) =>
        parsed.rule.regexString = ExpectedRegexp(parsed.rule.ruleText)

====
